---- MODULE Spec2Model ----
(***************************************************************************)
(* Model of src/src/lib.rs: the schema registry (Ajv.schemas behind an    *)
(* Arc), the reference resolver (SchemaRetriever::retrieve), compilation  *)
(* (Ajv::compile) and the validation entry points of NapiValidator with   *)
(* the thread-local parse buffer PARSE_BUF.                               *)
(*                                                                         *)
(* Strings are sequences of one-character strings, so that split('#')     *)
(* and trim_end_matches('/') are computed character by character.         *)
(***************************************************************************)
EXTENDS Integers, Sequences, FiniteSets, TLC

VARIABLES heap, ajv, validators, last, bufs, calls

vars == <<heap, ajv, validators, last, bufs, calls>>

(***************************************************************************)
(* Bounds                                                                  *)
(***************************************************************************)
\* longest URI handed to retrieve
MaxUriLen == 3

(***************************************************************************)
(* Strings                                                                 *)
(***************************************************************************)
Char == {"a", "/", "#"}

Range(s) == {s[i] : i \in DOMAIN s}

SeqsUpTo(S, n) == UNION {[1..k -> S] : k \in 0..n}

EndsWithSlash(s) == Len(s) > 0 /\ s[Len(s)] = "/"

Unknown == <<"u", "n", "k", "n", "o", "w", "n">>

\* A Uri<String>: a scheme (here the letter a) followed by the rest, with at
\* most one '#', which starts the fragment.
IsUri(s) ==
    /\ Len(s) > 0
    /\ s[1] = "a"
    /\ Cardinality({i \in DOMAIN s : s[i] = "#"}) <= 1

Uris == {s \in SeqsUpTo(Char, MaxUriLen) : IsUri(s)}

(***************************************************************************)
(* serde_json::Value, as far as add_schema and compile look into it        *)
(***************************************************************************)
Absent == [p |-> "absent"]
NonStr == [p |-> "nonstr"]
Str(s) == [p |-> "str", s |-> s]

None == [some |-> FALSE]
Some(x) == [some |-> TRUE, v |-> x]

Ok(x) == [ok |-> TRUE, v |-> x]
Err(e) == [ok |-> FALSE, err |-> e]

\* Value::get(key): None unless the value is an object that has the key.
Get(schema, key) ==
    IF schema.obj /\ schema[key] # Absent THEN Some(schema[key]) ELSE None

\* Option::or_else
OrElse(a, b) == IF a.some THEN a ELSE b

\* Value::as_str
AsStr(val) == IF val.p = "str" THEN Some(val.s) ELSE None

(***************************************************************************)
(* HashMap<String, Value> and Arc<HashMap<..>>                             *)
(***************************************************************************)
EmptyMap == <<>>

\* HashMap::get
MapGet(m, k) == IF k \in DOMAIN m THEN Some(m[k]) ELSE None

\* HashMap::insert: the entry under k is added or replaced.
MapInsert(m, k, v) == [x \in (DOMAIN m) \cup {k} |-> IF x = k THEN v ELSE m[x]]

FreshPtr(h) == CHOOSE p \in 1..(Cardinality(DOMAIN h) + 1) : p \notin DOMAIN h

\* Arc::clone: one more owner of the same allocation.
ArcClone(h, p) == [h EXCEPT ![p].strong = @ + 1]

\* Drop of an Arc: one owner fewer, the allocation freed with the last one.
ArcDrop(h, p) ==
    IF h[p].strong = 1
    THEN [q \in (DOMAIN h) \ {p} |-> h[q]]
    ELSE [h EXCEPT ![p].strong = @ - 1]

\* Arc::make_mut with the allocation mutated in place whatever its owners.
MakeMutInPlace(h, p) == [heap |-> h, ptr |-> p]

\* Arc::make_mut: the only owner mutates in place; otherwise the map is
\* cloned into a fresh allocation and this owner leaves the shared one.
MakeMut(h, p) ==
    IF h[p].strong = 1
    THEN [heap |-> h, ptr |-> p]
    ELSE LET q == FreshPtr(h)
             h1 == [x \in (DOMAIN h) \cup {q} |->
                      IF x = q THEN [strong |-> 1, map |-> h[p].map]
                      ELSE IF x = p THEN [strong |-> h[p].strong - 1, map |-> h[p].map]
                      ELSE h[x]]
         IN [heap |-> h1, ptr |-> q]

\* The content of Ajv.schemas.
Registry == heap[ajv].map

(***************************************************************************)
(* SchemaRetriever::retrieve                                               *)
(***************************************************************************)
\* uri_str.split('#').next(): the text before the first '#'.
RECURSIVE SplitHashNext(_)
SplitHashNext(s) ==
    IF s = <<>> \/ Head(s) = "#" THEN <<>>
    ELSE <<Head(s)>> \o SplitHashNext(Tail(s))

\* a single trailing '/' removed, as the contract words the third attempt
StripOneSlash(s) == IF EndsWithSlash(s) THEN SubSeq(s, 1, Len(s) - 1) ELSE s

\* str::trim_end_matches('/'): every trailing '/' removed.
RECURSIVE TrimEndMatchesSlash(_)
TrimEndMatchesSlash(s) ==
    IF EndsWithSlash(s) THEN TrimEndMatchesSlash(SubSeq(s, 1, Len(s) - 1)) ELSE s

SchemaNotFound(uri) == [msg |-> "Schema not found: ", uri |-> uri]

\* retrieve without the attempt on the URI stripped of its fragment.
RetrieveNoBase(schemas, uri) ==
    IF MapGet(schemas, uri).some THEN Ok(schemas[uri])
    ELSE LET without_slash == TrimEndMatchesSlash(uri)
         IN IF MapGet(schemas, without_slash).some THEN Ok(schemas[without_slash])
            ELSE Err(SchemaNotFound(uri))

\* retrieve that finds a registered id only by the exact string.
RetrieveExactOnly(schemas, uri) ==
    IF MapGet(schemas, uri).some THEN Ok(schemas[uri])
    ELSE Err(SchemaNotFound(uri))

Retrieve(schemas, uri) ==
    IF MapGet(schemas, uri).some THEN Ok(schemas[uri])
    ELSE LET base_uri == SplitHashNext(uri)
         IN IF MapGet(schemas, base_uri).some THEN Ok(schemas[base_uri])
            ELSE LET without_slash == TrimEndMatchesSlash(base_uri)
                 IN IF MapGet(schemas, without_slash).some
                    THEN Ok(schemas[without_slash])
                    ELSE Err(SchemaNotFound(uri))

(***************************************************************************)
(* Ajv::new and Ajv::add_schema                                            *)
(***************************************************************************)
InvalidSchemaId == "Schema ID must be a string"

\* The identifier with the legacy id looked up before $id.
DeriveIdLegacyFirst(schema, key) ==
    IF key.some THEN Ok(key.v)
    ELSE LET id_val == OrElse(Get(schema, "lid"), Get(schema, "sid"))
         IN IF id_val.some
            THEN IF AsStr(id_val.v).some THEN Ok(AsStr(id_val.v).v)
                 ELSE Err(InvalidSchemaId)
            ELSE Ok(Unknown)

\* The identifier a non-string id field falls through to the placeholder for.
DeriveIdLenient(schema, key) ==
    IF key.some THEN Ok(key.v)
    ELSE LET id_val == OrElse(Get(schema, "sid"), Get(schema, "lid"))
         IN IF id_val.some /\ AsStr(id_val.v).some THEN Ok(AsStr(id_val.v).v)
            ELSE Ok(Unknown)

\* lines 68-80: the identifier add_schema stores the document under.
DeriveId(schema, key) ==
    IF key.some THEN Ok(key.v)
    ELSE LET id_val == OrElse(Get(schema, "sid"), Get(schema, "lid"))
         IN IF id_val.some
            THEN IF AsStr(id_val.v).some THEN Ok(AsStr(id_val.v).v)
                 ELSE Err(InvalidSchemaId)
            ELSE Ok(Unknown)

\* add_schema on the heap h with Ajv.schemas = p: the result, the heap and
\* the pointer afterwards.
AddSchemaCall(h, p, schema, key) ==
    LET id == DeriveId(schema, key)
    IN IF ~id.ok THEN [res |-> Err(id.err), heap |-> h, ptr |-> p]
       ELSE LET mm == MakeMut(h, p)
                h1 == [mm.heap EXCEPT ![mm.ptr].map = MapInsert(@, id.v, schema)]
            IN [res |-> Ok("unit"), heap |-> h1, ptr |-> mm.ptr]

(***************************************************************************)
(* Ajv::compile                                                            *)
(***************************************************************************)
Draft04Uri == "http://json-schema.org/draft-04/schema#"
Draft06Uri == "http://json-schema.org/draft-06/schema#"
Draft07Uri == "http://json-schema.org/draft-07/schema#"
Draft201909Uri == "https://json-schema.org/draft/2019-09/schema"
Draft202012Uri == "https://json-schema.org/draft/2020-12/schema"

\* lines 106-113 with a hint that is not recognized read as draft 7.
DraftOfHintDefault7(uri) ==
    CASE uri = Draft04Uri -> Some("Draft4")
      [] uri = Draft06Uri -> Some("Draft6")
      [] uri = Draft07Uri -> Some("Draft7")
      [] uri = Draft201909Uri -> Some("Draft201909")
      [] uri = Draft202012Uri -> Some("Draft202012")
      [] OTHER -> Some("Draft7")

\* lines 106-113: the match on the hint.
DraftOfHint(uri) ==
    CASE uri = Draft04Uri -> Some("Draft4")
      [] uri = Draft06Uri -> Some("Draft6")
      [] uri = Draft07Uri -> Some("Draft7")
      [] uri = Draft201909Uri -> Some("Draft201909")
      [] uri = Draft202012Uri -> Some("Draft202012")
      [] OTHER -> None

\* lines 100-116: the options compile builds with.
OptionsFor(retriever, draft_uri) ==
    LET base == [retriever |-> retriever, validate_formats |-> TRUE, draft |-> None]
    IN IF draft_uri.some /\ DraftOfHint(draft_uri.v).some
       THEN [base EXCEPT !.draft = DraftOfHint(draft_uri.v)]
       ELSE base

\* The engine's choice of draft: the pinned one, else the one the schema's
\* own $schema names, else the newest.
SelectDraft(options, schema) ==
    IF options.draft.some THEN options.draft.v
    ELSE LET d == Get(schema, "dschema")
         IN IF d.some /\ AsStr(d.v).some /\ DraftOfHint(AsStr(d.v).v).some
            THEN DraftOfHint(AsStr(d.v).v).v
            ELSE "Draft202012"

InvalidKeyword == [msg |-> "\"type\" is not a string or an array of strings", uri |-> <<>>]

\* The engine's eager resolution: every $ref is retrieved at once and the
\* document it names compiled in turn; a URI already resolved is not
\* retrieved again, which ends a cycle.
RECURSIVE ResolveRefs(_, _, _)
ResolveRefs(schemas, schema, resolved) ==
    IF Get(schema, "typ").some /\ ~AsStr(Get(schema, "typ").v).some
    THEN Err(InvalidKeyword)
    ELSE LET r == Get(schema, "ref")
         IN IF ~r.some \/ ~AsStr(r.v).some THEN Ok(resolved)
            ELSE LET uri == AsStr(r.v).v
                 IN IF uri \in DOMAIN resolved THEN Ok(resolved)
                    ELSE LET got == Retrieve(schemas, uri)
                         IN IF ~got.ok THEN Err(got.err)
                            ELSE ResolveRefs(schemas, got.v,
                                             MapInsert(resolved, uri, got.v))

\* options.build(&schema): the compiled validator, or the cause.
Build(options, schema, h) ==
    LET refs == ResolveRefs(h[options.retriever].map, schema, EmptyMap)
    IN IF ~refs.ok THEN Err(refs.err)
       ELSE Ok([draft |-> SelectDraft(options, schema), root |-> schema,
                resolved |-> refs.v])

\* compile that also files the schema it compiled in the registry.
CompileCallCaching(h, p, schema, draft_uri, keep) ==
    LET h1 == ArcClone(h, p)
        built == Build(OptionsFor(p, draft_uri), schema, h1)
        h2 == [h1 EXCEPT ![p].map = MapInsert(@, Unknown, schema)]
    IN IF ~built.ok
       THEN [res |-> Err(built.err), heap |-> ArcDrop(h2, p), validator |-> None]
       ELSE [res |-> Ok(built.v),
             heap |-> IF keep THEN h2 ELSE ArcDrop(h2, p),
             validator |-> Some([view |-> IF keep THEN Some(p) ELSE None,
                                 compiled |-> built.v,
                                 snap |-> h[p].map])]

\* compile on the heap h with Ajv.schemas = p. The retriever is a clone of
\* the Arc; it is dropped with the options when build fails, and whether the
\* engine's Validator keeps it (keep) is the engine's affair. snap records
\* the registry content at the call.
CompileCall(h, p, schema, draft_uri, keep) ==
    LET h1 == ArcClone(h, p)
        built == Build(OptionsFor(p, draft_uri), schema, h1)
    IN IF ~built.ok
       THEN [res |-> Err(built.err), heap |-> ArcDrop(h1, p), validator |-> None]
       ELSE [res |-> Ok(built.v),
             heap |-> IF keep THEN h1 ELSE ArcDrop(h1, p),
             validator |-> Some([view |-> IF keep THEN Some(p) ELSE None,
                                 compiled |-> built.v,
                                 snap |-> h[p].map])]

(***************************************************************************)
(* JSON text and the two parsers                                           *)
(***************************************************************************)
Num(n) == [t |-> "num", n |-> n]
Arr(items) == [t |-> "arr", items |-> items]

Digit == [c \in {"1", "5"} |-> IF c = "1" THEN 1 ELSE 5]

RECURSIVE DigitsValue(_)
DigitsValue(s) ==
    IF s = <<>> THEN 0 ELSE 10 * DigitsValue(SubSeq(s, 1, Len(s) - 1)) + Digit[s[Len(s)]]

\* The JSON grammar over digits and brackets: a number, or an array of no
\* or one value.
RECURSIVE ParseJson(_)
ParseJson(s) ==
    IF s = <<>> THEN None
    ELSE IF Range(s) \subseteq DOMAIN Digit THEN Some(Num(DigitsValue(s)))
    ELSE IF Len(s) >= 2 /\ s[1] = "[" /\ s[Len(s)] = "]"
         THEN LET inner == SubSeq(s, 2, Len(s) - 1)
              IN IF inner = <<>> THEN Some(Arr(<<>>))
                 ELSE IF ParseJson(inner).some THEN Some(Arr(<<ParseJson(inner).v>>))
                 ELSE None
    ELSE None

\* lines 154, 169, 184, 194: the error a text that does not parse maps to
InvalidJson(parser) == [msg |-> "Invalid JSON: ", detail |-> parser]

\* serde_json::from_str
SerdeFromStr(data_str) ==
    IF ParseJson(data_str).some THEN Ok(ParseJson(data_str).v)
    ELSE Err(InvalidJson("serde_json"))

\* what the in-place parse may leave in the slice it was lent
JunkByte == "0"
Overwritten(buf) == [i \in DOMAIN buf |-> JunkByte]

\* simd_json::serde::from_slice(&mut buf): the value, and the slice as the
\* parser leaves it (untouched, or written over)
SimdFromSlice(buf, overwrite) ==
    [res |-> IF ParseJson(buf).some THEN Ok(ParseJson(buf).v)
             ELSE Err(InvalidJson("simd_json")),
     buf |-> IF overwrite THEN Overwritten(buf) ELSE buf]

(***************************************************************************)
(* The engine: Validator::is_valid and Validator::iter_errors              *)
(***************************************************************************)
TypeNode(t) == [k |-> "type", t |-> t]
MinimumNode(n) == [k |-> "minimum", n |-> n]
ItemsNode(sub) == [k |-> "items", sub |-> sub]
AllOfNode(subs) == [k |-> "allOf", subs |-> subs]

TypeMatches(t, data) ==
    \/ t = "integer" /\ data.t = "num"
    \/ t = "array" /\ data.t = "arr"

\* is_valid: stops at the first failure, builds no error
RECURSIVE IsValid(_, _)
IsValid(node, data) ==
    CASE node.k = "type" -> TypeMatches(node.t, data)
      [] node.k = "minimum" -> data.t = "num" => data.n >= node.n
      [] node.k = "items" ->
            data.t = "arr" => \A i \in DOMAIN data.items : IsValid(node.sub, data.items[i])
      [] node.k = "allOf" -> \A i \in DOMAIN node.subs : IsValid(node.subs[i], data)

RECURSIVE ConcatAll(_)
ConcatAll(ss) == IF ss = <<>> THEN <<>> ELSE Head(ss) \o ConcatAll(Tail(ss))

\* Display of an array index
Index == [i \in 0..9 |-> <<"0", "1", "2", "3", "4", "5", "6", "7", "8", "9">>[i + 1]]

\* iter_errors: every failure of the graph, keywords in order, each with
\* the instance location and the schema location
RECURSIVE IterErrors(_, _, _, _)
IterErrors(node, data, ipath, spath) ==
    CASE node.k = "type" ->
            IF TypeMatches(node.t, data) THEN <<>>
            ELSE <<[kind |-> "type", instance |-> data, instance_path |-> ipath,
                    schema_path |-> spath \o <<"type">>]>>
      [] node.k = "minimum" ->
            IF data.t = "num" => data.n >= node.n THEN <<>>
            ELSE <<[kind |-> "minimum", instance |-> data, instance_path |-> ipath,
                    schema_path |-> spath \o <<"minimum">>]>>
      [] node.k = "items" ->
            IF data.t # "arr" THEN <<>>
            ELSE ConcatAll([i \in DOMAIN data.items |->
                     IterErrors(node.sub, data.items[i], ipath \o <<Index[i - 1]>>,
                                spath \o <<"items">>)])
      [] node.k = "allOf" ->
            ConcatAll([i \in DOMAIN node.subs |->
                IterErrors(node.subs[i], data, ipath,
                           spath \o <<"allOf", Index[i - 1]>>)])

\* Display of a JSON pointer: every token behind a '/'
RECURSIVE PointerToString(_)
PointerToString(tokens) ==
    IF tokens = <<>> THEN <<>>
    ELSE <<"/", Head(tokens)>> \o PointerToString(Tail(tokens))

\* Display of a validation error
ErrorToString(e) ==
    [instance |-> e.instance,
     text |-> IF e.kind = "type" THEN " is not of the required type"
              ELSE " is less than the minimum"]

(***************************************************************************)
(* NapiValidator                                                           *)
(***************************************************************************)
\* lines 209-213: the AjvError made of one engine error
ToAjvError(e) ==
    [message |-> ErrorToString(e),
     instance_path |-> PointerToString(e.instance_path),
     schema_path |-> PointerToString(e.schema_path)]

MapErrors(es) == [i \in DOMAIN es |-> ToAjvError(es[i])]

\* validate_impl that reports the first error only.
ValidateImplFirstError(validator, data) ==
    IF IsValid(validator, data)
    THEN Ok([valid |-> TRUE, errors |-> None])
    ELSE LET errors == MapErrors(IterErrors(validator, data, <<>>, <<>>))
         IN Ok([valid |-> FALSE, errors |-> Some(SubSeq(errors, 1, 1))])

\* lines 199-221
ValidateImpl(validator, data) ==
    IF IsValid(validator, data)
    THEN Ok([valid |-> TRUE, errors |-> None])
    ELSE LET errors == MapErrors(IterErrors(validator, data, <<>>, <<>>))
         IN Ok([valid |-> FALSE, errors |-> Some(errors)])

\* lines 147-149
Validate(validator, data) == ValidateImpl(validator, data)

\* lines 152-157
ValidateString(validator, data_str) ==
    LET data == SerdeFromStr(data_str)
    IN IF ~data.ok THEN Err(data.err) ELSE ValidateImpl(validator, data.v)

\* is_valid_string that answers false for a text that does not parse.
IsValidStringSwallow(validator, data_str) ==
    LET data == SerdeFromStr(data_str)
    IN IF ~data.ok THEN Ok(FALSE) ELSE Ok(IsValid(validator, data.v))

\* lines 192-197
IsValidString(validator, data_str) ==
    LET data == SerdeFromStr(data_str)
    IN IF ~data.ok THEN Err(data.err) ELSE Ok(IsValid(validator, data.v))

\* buf.clear() left out.
ClearBufKeep(buf) == buf

\* lines 164, 180: buf.clear()
ClearBuf(buf) == <<>>

\* lines 165, 181: buf.extend_from_slice(&buffer)
ExtendFromSlice(buf, buffer) == buf \o buffer

\* lines 171, 186: what a buffer call does with the parsed value
BufferCheck(op, validator, data) ==
    IF op = "validateBuffer" THEN ValidateImpl(validator, data)
    ELSE Ok(IsValid(validator, data))

\* lines 160-173 and 177-188 run to the end on a thread whose buffer holds
\* buf
BufferCall(buf, op, validator, buffer) ==
    LET parsed == SimdFromSlice(ExtendFromSlice(ClearBuf(buf), buffer), FALSE)
    IN IF ~parsed.res.ok THEN Err(parsed.res.err)
       ELSE BufferCheck(op, validator, parsed.res.v)

(***************************************************************************)
(* Inputs of the registry operations                                       *)
(***************************************************************************)
NoRef == [obj |-> TRUE, sid |-> Absent, lid |-> Absent, ref |-> Absent,
          dschema |-> Absent, typ |-> Absent]

\* a schema that is no object (true, false, a number ...)
NonObject == [NoRef EXCEPT !.obj = FALSE]

\* documents with every shape of $id and id
RegDocs ==
    {[NoRef EXCEPT !.sid = s, !.lid = l] :
        s \in {Absent, NonStr, Str(<<"a", "/">>)},
        l \in {Absent, NonStr, Str(<<"a">>)}}
    \cup {NonObject}

RegKeys == {<<"a">>, <<"a", "/">>}

\* two documents, registered under identifiers with and without a trailing
\* '/' and with a fragment
ResDocs == {NoRef, [NoRef EXCEPT !.sid = Str(<<"a", "/">>)]}

ResKeys == {<<"a">>, <<"a", "/">>, <<"a", "#">>}

RetrieveUris == Uris \cup {Unknown, Unknown \o <<"/">>}

(***************************************************************************)
(* State                                                                   *)
(***************************************************************************)
Threads == {"main", "worker"}

\* the caller's variables that hold a NapiValidator
Slots == {"v1", "v2"}

Init ==
    /\ heap = [p \in {1} |-> [strong |-> 1, map |-> EmptyMap]]
    /\ ajv = 1
    /\ validators = [s \in Slots |-> None]
    /\ last = [op |-> "new"]
    /\ bufs = [t \in Threads |-> <<>>]
    /\ calls = [t \in Threads |-> [pc |-> "idle"]]

\* the caller retries, with an explicit key, the document whose add_schema
\* has just failed
IsRetry(schema, key) ==
    /\ key.some
    /\ last.op = "add_schema"
    /\ ~last.res.ok
    /\ last.schema = schema

\* the call puts the document in the place of another one
Replaces(schema, key) ==
    LET id == DeriveId(schema, key)
    IN id.ok /\ id.v \in DOMAIN Registry /\ Registry[id.v] # schema

AddSchema(docs, keys) ==
    \E schema \in docs, key \in {None} \cup {Some(k) : k \in keys} :
        LET r == AddSchemaCall(heap, ajv, schema, key)
        IN /\ heap' = r.heap
           /\ ajv' = r.ptr
           /\ last' = [op |-> "add_schema", schema |-> schema, key |-> key,
                       res |-> r.res, retry |-> IsRetry(schema, key),
                       replaced |-> Replaces(schema, key)]
           /\ UNCHANGED <<validators, bufs, calls>>

\* a $ref met by a compilation bound to the current registry
RetrieveStep ==
    \E uri \in RetrieveUris :
        /\ last' = [op |-> "retrieve", uri |-> uri, res |-> Retrieve(Registry, uri)]
        /\ UNCHANGED <<heap, ajv, validators, bufs, calls>>

NextRegistry == AddSchema(RegDocs, RegKeys)

SpecRegistry == Init /\ [][NextRegistry]_vars

NextResolver == AddSchema(ResDocs, ResKeys) \/ RetrieveStep

SpecResolver == Init /\ [][NextResolver]_vars

(***************************************************************************)
(* Compilation                                                             *)
(***************************************************************************)
\* registry documents of the compilations: one that refers to itself, one
\* plain
CompDocs == {[NoRef EXCEPT !.sid = Str(<<"a">>), !.ref = Str(<<"a">>)],
             [NoRef EXCEPT !.sid = Str(<<"a", "/">>)]}

CompKeys == {<<"a">>}

\* schemas handed to compile: without $ref, with a $ref, with a bad keyword
CompSchemas == {NoRef,
                [NoRef EXCEPT !.ref = Str(<<"a", "/">>)],
                [NoRef EXCEPT !.typ = NonStr]}

CompHints == {None}

\* the heap once the validator in slot s is garbage: its retriever, when it
\* holds one, is dropped
Released(h, s) ==
    IF validators[s].some /\ validators[s].v.view.some
    THEN ArcDrop(h, validators[s].v.view.v)
    ELSE h

\* s = ajv.compile(schema, hint): a validator that succeeds takes the place
\* of the one the variable held.
Compile(schemas, hints, slots) ==
    \E schema \in schemas, hint \in hints, s \in slots, keep \in BOOLEAN :
        LET r == CompileCall(heap, ajv, schema, hint, keep)
        IN /\ keep \/ r.res.ok
           /\ heap' = IF r.res.ok THEN Released(r.heap, s) ELSE r.heap
           /\ validators' = IF r.res.ok THEN [validators EXCEPT ![s] = r.validator]
                            ELSE validators
           /\ last' = [op |-> "compile", schema |-> schema, hint |-> hint,
                       res |-> r.res]
           /\ UNCHANGED <<ajv, bufs, calls>>

\* the variable is cleared and the validator collected
DropValidator ==
    \E s \in Slots :
        /\ validators[s].some
        /\ heap' = Released(heap, s)
        /\ validators' = [validators EXCEPT ![s] = None]
        /\ last' = [op |-> "drop", slot |-> s]
        /\ UNCHANGED <<ajv, bufs, calls>>

NextCompile ==
    \/ AddSchema(CompDocs, CompKeys)
    \/ Compile(CompSchemas, CompHints, Slots)
    \/ DropValidator

SpecCompile == Init /\ [][NextCompile]_vars

\* schemas whose own $schema names a draft, or none
DraftSchemas ==
    {[NoRef EXCEPT !.dschema = d, !.ref = r] :
        d \in {Absent, Str(Draft04Uri)},
        r \in {Absent, Str(<<"a", "/">>)}}

\* the five canonical hints, no hint, and hints that are near misses
UnrecognizedHints == {"http://json-schema.org/draft-07/schema",
                      "https://json-schema.org/draft/2020-12/schema#"}

CanonicalHints == {Draft04Uri, Draft06Uri, Draft07Uri, Draft201909Uri, Draft202012Uri}

DraftHints == {None} \cup {Some(u) : u \in CanonicalHints \cup UnrecognizedHints}

NextDraft ==
    \/ AddSchema(CompDocs, {})
    \/ Compile(DraftSchemas, DraftHints, {"v1"})

SpecDraft == Init /\ [][NextDraft]_vars

(***************************************************************************)
(* Compilation properties                                                  *)
(***************************************************************************)
LiveViews == {s \in Slots : validators[s].some /\ validators[s].v.view.some}

\* C3: the registry view a compilation holds is the registry content at the
\* moment of compile, whatever add_schema has done since, and building
\* again from that view gives the validator that was built.
C3_SnapshotIsolation ==
    \A s \in LiveViews :
        LET val == validators[s].v
        IN /\ heap[val.view.v].map = val.snap
           /\ Build([retriever |-> val.view.v, validate_formats |-> TRUE,
                     draft |-> Some(val.compiled.draft)],
                    val.compiled.root, heap) = Ok(val.compiled)

\* a validator whose view is alive while the registry has since got a new
\* identifier and another document under an old one
C3_Witness ==
    \E s \in LiveViews :
        LET snap == validators[s].v.snap
        IN /\ \E id \in DOMAIN Registry : id \notin DOMAIN snap
           /\ \E id \in DOMAIN snap : id \in DOMAIN Registry /\ Registry[id] # snap[id]
           /\ validators[s].v.compiled.resolved # EmptyMap

\* the draft each canonical hint stands for
PinnedDraft ==
    [u \in CanonicalHints |->
        IF u = "http://json-schema.org/draft-04/schema#" THEN "Draft4"
        ELSE IF u = "http://json-schema.org/draft-06/schema#" THEN "Draft6"
        ELSE IF u = "http://json-schema.org/draft-07/schema#" THEN "Draft7"
        ELSE IF u = "https://json-schema.org/draft/2019-09/schema" THEN "Draft201909"
        ELSE "Draft202012"]

\* C8: a canonical hint pins its draft; with any other hint compile ends as
\* it does with no hint at all: same success or failure, same draft.
C8_DraftHint ==
    [][(last'.op = "compile" /\ last'.hint.some) =>
          /\ (last'.hint.v \in CanonicalHints /\ last'.res.ok)
                => last'.res.v.draft = PinnedDraft[last'.hint.v]
          /\ last'.hint.v \notin CanonicalHints
                => last'.res = CompileCall(heap, ajv, last'.schema, None, TRUE).res]_vars

\* an unrecognized hint on a schema that names its own draft, compiled
C8_Witness ==
    /\ last.op = "compile"
    /\ last.hint.some
    /\ last.hint.v \in UnrecognizedHints
    /\ last.res.ok
    /\ last.res.v.draft = "Draft4"
    /\ last.res.v.resolved # EmptyMap

\* C9: compile leaves the registry content as it was; a compile that fails
\* gives one cause and no validator, and leaves every object as it was.
C9_CompileNoSideEffect ==
    [][last'.op = "compile" =>
          /\ Registry' = Registry
          /\ ajv' = ajv
          /\ ~last'.res.ok =>
                (/\ heap' = heap
                 /\ validators' = validators
                 /\ \/ last'.res.err = InvalidKeyword
                    \/ last'.res.err \in {SchemaNotFound(u) : u \in Uris})]_vars

\* a compile has failed on a $ref nothing resolves while a validator of an
\* earlier compile is alive
C9_Witness ==
    /\ last.op = "compile"
    /\ ~last.res.ok
    /\ last.res.err = SchemaNotFound(<<"a", "/">>)
    /\ LiveViews # {}

(***************************************************************************)
(* Validation calls                                                        *)
(***************************************************************************)
Validators ==
    {AllOfNode(<<TypeNode("integer"), MinimumNode(5)>>),
     AllOfNode(<<MinimumNode(5), MinimumNode(15)>>),
     ItemsNode(MinimumNode(5))}

\* texts that parse, of several lengths, and texts that do not
Texts == {<<"1">>, <<"5">>, <<"1", "5">>, <<"[", "]">>, <<"[", "1", "]">>,
          <<"[", "5", "]">>, <<>>, <<"[">>, <<"5", "]">>, <<"[", "1">>}

Values == {ParseJson(x).v : x \in {y \in Texts : ParseJson(y).some}}

Idle(t) == calls[t].pc = "idle"

Done(op, validator, input, res, dirty) ==
    [pc |-> "idle", op |-> op, validator |-> validator, input |-> input,
     res |-> res, dirty |-> dirty]

\* validator.validate(value)
CallValidate(t, vals) ==
    \E validator \in vals, data \in Values :
        /\ Idle(t)
        /\ calls' = [calls EXCEPT ![t] =
                        Done("validate", validator, data, Validate(validator, data), 0)]
        /\ UNCHANGED <<heap, ajv, validators, last, bufs>>

\* validator.validateString(text)
CallValidateString(t, vals, texts) ==
    \E validator \in vals, data_str \in texts :
        /\ Idle(t)
        /\ calls' = [calls EXCEPT ![t] =
                        Done("validateString", validator, data_str,
                             ValidateString(validator, data_str), 0)]
        /\ UNCHANGED <<heap, ajv, validators, last, bufs>>

\* validator.isValidString(text)
CallIsValidString(t, vals, texts) ==
    \E validator \in vals, data_str \in texts :
        /\ Idle(t)
        /\ calls' = [calls EXCEPT ![t] =
                        Done("isValidString", validator, data_str,
                             IsValidString(validator, data_str), 0)]
        /\ UNCHANGED <<heap, ajv, validators, last, bufs>>

\* validateBuffer or isValidBuffer entered: PARSE_BUF.with and borrow_mut.
\* dirty is the length of what the thread's buffer holds from before.
BeginBuffer(t, vals, texts) ==
    \E op \in {"validateBuffer", "isValidBuffer"}, validator \in vals, buffer \in texts :
        /\ Idle(t)
        /\ calls' = [calls EXCEPT ![t] =
                        [pc |-> "clear", op |-> op, validator |-> validator,
                         input |-> buffer, dirty |-> Len(bufs[t])]]
        /\ UNCHANGED <<heap, ajv, validators, last, bufs>>

BufClear(t) ==
    /\ calls[t].pc = "clear"
    /\ bufs' = [bufs EXCEPT ![t] = ClearBuf(@)]
    /\ calls' = [calls EXCEPT ![t].pc = "extend"]
    /\ UNCHANGED <<heap, ajv, validators, last>>

BufExtend(t) ==
    /\ calls[t].pc = "extend"
    /\ bufs' = [bufs EXCEPT ![t] = ExtendFromSlice(@, calls[t].input)]
    /\ calls' = [calls EXCEPT ![t].pc = "parse"]
    /\ UNCHANGED <<heap, ajv, validators, last>>

\* the parse and, for a value, the validation; a text that does not parse
\* returns the error at once
BufParse(t) ==
    \E overwrite \in BOOLEAN :
        LET c == calls[t]
            parsed == SimdFromSlice(bufs[t], overwrite)
        IN /\ c.pc = "parse"
           /\ bufs' = [bufs EXCEPT ![t] = parsed.buf]
           /\ calls' = [calls EXCEPT ![t] =
                  IF parsed.res.ok
                  THEN [pc |-> "check", op |-> c.op, validator |-> c.validator,
                        input |-> c.input, dirty |-> c.dirty, data |-> parsed.res.v]
                  ELSE Done(c.op, c.validator, c.input, Err(parsed.res.err), c.dirty)]
           /\ UNCHANGED <<heap, ajv, validators, last>>

BufCheck(t) ==
    LET c == calls[t]
    IN /\ c.pc = "check"
       /\ calls' = [calls EXCEPT ![t] =
              Done(c.op, c.validator, c.input,
                   BufferCheck(c.op, c.validator, c.data), c.dirty)]
       /\ UNCHANGED <<heap, ajv, validators, last, bufs>>

BufferSteps(t) == BufClear(t) \/ BufExtend(t) \/ BufParse(t) \/ BufCheck(t)

\* one caller, every entry point
NextValidate ==
    \/ CallValidate("main", Validators)
    \/ CallValidateString("main", Validators, Texts)
    \/ CallIsValidString("main", Validators, Texts)
    \/ BeginBuffer("main", Validators, Texts)
    \/ BufferSteps("main")

SpecValidate == Init /\ [][NextValidate]_vars

\* two threads on the same validators, buffer calls only
BufferValidators == {AllOfNode(<<TypeNode("integer"), MinimumNode(5)>>)}

BufferTexts == {<<"5">>, <<"[", "1", "]">>, <<"[">>, <<"1">>}

NextBuffer ==
    \E t \in Threads : BeginBuffer(t, BufferValidators, BufferTexts) \/ BufferSteps(t)

SpecBuffer == Init /\ [][NextBuffer]_vars

(***************************************************************************)
(* Validation properties                                                   *)
(***************************************************************************)
Returned == {t \in Threads : Idle(t) /\ "res" \in DOMAIN calls[t]}

FastOps == {"isValidString", "isValidBuffer"}
DetailedTextOps == {"validateString", "validateBuffer"}

\* what the fast entry points answer for a text
FastOn(validator, text) ==
    {IsValidString(validator, text), BufferCall(<<>>, "isValidBuffer", validator, text)}

\* what the detailed entry points answer for a text and for its value
DetailedOn(validator, text) ==
    {ValidateString(validator, text), BufferCall(<<>>, "validateBuffer", validator, text)}
    \cup (IF ParseJson(text).some THEN {Validate(validator, ParseJson(text).v)} ELSE {})

\* the boolean equals the valid field, or both are the Invalid JSON error
Agree(fast, detailed) ==
    IF fast.ok THEN detailed.ok /\ detailed.v.valid = fast.v
    ELSE /\ ~detailed.ok
         /\ fast.err.msg = "Invalid JSON: "
         /\ detailed.err.msg = "Invalid JSON: "

\* C4: the boolean of the fast path is the valid field of the detailed path
\* for the same instance, and a text that does not parse fails on both.
C4_FastAgreesWithDetailed ==
    \A t \in Returned :
        LET c == calls[t]
        IN CASE c.op \in FastOps ->
                   \A d \in DetailedOn(c.validator, c.input) : Agree(c.res, d)
             [] c.op \in DetailedTextOps ->
                   \A f \in FastOn(c.validator, c.input) : Agree(f, c.res)
             [] c.op = "validate" ->
                   \A x \in Texts : ParseJson(x) = Some(c.input) =>
                       \A f \in FastOn(c.validator, x) : Agree(f, c.res)

\* a fast buffer call, on a buffer that held an earlier input, has answered
\* false
C4_Witness ==
    \E t \in Returned :
        /\ calls[t].op = "isValidBuffer"
        /\ calls[t].res.ok
        /\ ~calls[t].res.v
        /\ calls[t].dirty > 0

\* the instance a detailed call was about
InstanceOf(c) == IF c.op = "validate" THEN c.input ELSE ParseJson(c.input).v

\* C5: valid is true exactly when errors is absent; an invalid result holds
\* every error of the engine's iteration, in its order, and at least one.
C5_CompleteErrors ==
    \A t \in Returned :
        LET c == calls[t]
        IN (c.op \in DetailedTextOps \cup {"validate"} /\ c.res.ok) =>
              LET engine == IterErrors(c.validator, InstanceOf(c), <<>>, <<>>)
                  r == c.res.v
              IN /\ r.valid <=> ~r.errors.some
                 /\ ~r.valid =>
                       (/\ r.errors.v # <<>>
                        /\ Len(r.errors.v) = Len(engine)
                        /\ \A i \in DOMAIN engine :
                               /\ r.errors.v[i].message = ErrorToString(engine[i])
                               /\ r.errors.v[i].instance_path
                                      = PointerToString(engine[i].instance_path)
                               /\ r.errors.v[i].schema_path
                                      = PointerToString(engine[i].schema_path))

\* a buffer call has reported two errors, in the order of the keywords
C5_Witness ==
    \E t \in Returned :
        /\ calls[t].op = "validateBuffer"
        /\ calls[t].res.ok
        /\ ~calls[t].res.v.valid
        /\ Len(calls[t].res.v.errors.v) = 2
        /\ calls[t].res.v.errors.v[1].schema_path = <<"/", "allOf", "/", "0", "/", "minimum">>
        /\ calls[t].res.v.errors.v[2].schema_path = <<"/", "allOf", "/", "1", "/", "minimum">>

\* the outcome the bytes of the call alone give
OutcomeOf(op, validator, bytes) ==
    IF ~ParseJson(bytes).some THEN Err(InvalidJson("simd_json"))
    ELSE IF op = "validateBuffer" THEN ValidateImpl(validator, ParseJson(bytes).v)
    ELSE Ok(IsValid(validator, ParseJson(bytes).v))

\* C10: what a buffer call returns depends on the validator and the bytes
\* of that call only, whatever the thread's buffer held and whatever the
\* other thread does meanwhile.
C10_BufferCallsIndependent ==
    \A t \in Returned :
        calls[t].res = OutcomeOf(calls[t].op, calls[t].validator, calls[t].input)

\* a call has returned a result on a buffer that held a longer input, while
\* the other thread is in the middle of a call on other bytes
C10_Witness ==
    \E t \in Returned, u \in Threads :
        /\ u # t
        /\ calls[t].res.ok
        /\ calls[t].dirty > Len(calls[t].input)
        /\ calls[u].pc \in {"parse", "check"}
        /\ calls[u].input # calls[t].input
        /\ bufs[u] # <<>>

(***************************************************************************)
(* Resolution properties                                                   *)
(***************************************************************************)
\* the text before the first '#', said without a scan
BeforeFragment(s) ==
    IF "#" \notin Range(s) THEN s
    ELSE LET i == CHOOSE k \in DOMAIN s : s[k] = "#" /\ \A j \in 1..(k - 1) : s[j] # "#"
         IN SubSeq(s, 1, i - 1)

\* the longest prefix that does not end in '/'
WithoutTrailingSlashes(s) ==
    LET n == CHOOSE k \in 0..Len(s) :
                 /\ k = 0 \/ s[k] # "/"
                 /\ \A j \in (k + 1)..Len(s) : s[j] = "/"
    IN SubSeq(s, 1, n)

\* the document of the first key of the list that is registered, and
\* SchemaNotFound with the original URI when none is
FirstRegistered(m, keys, uri) ==
    LET hits == {i \in DOMAIN keys : keys[i] \in DOMAIN m}
    IN IF hits = {} THEN Err(SchemaNotFound(uri))
       ELSE Ok(m[keys[CHOOSE i \in hits : \A j \in hits : i <= j]])

Retrieved == last.op = "retrieve"

\* C1 as stated: every registered id resolves to its document; an id
\* registered with a trailing '/' is found without it, and an id registered
\* without one is found with it.
C1_RoundTripBothWays ==
    Retrieved =>
        \A id \in DOMAIN Registry :
            /\ last.uri = id => last.res = Ok(Registry[id])
            /\ (EndsWithSlash(id) /\ last.uri = StripOneSlash(id))
                   => last.res = Ok(Registry[id])
            /\ (~EndsWithSlash(id) /\ last.uri = id \o <<"/">>)
                   => last.res = Ok(Registry[id])

\* C1 amended: every registered id resolves to its document; an id without
\* '#' and without a trailing '/' is also found by id + '/', unless id + '/'
\* is registered itself.
C1_RoundTrip ==
    Retrieved =>
        \A id \in DOMAIN Registry :
            /\ last.uri = id => last.res = Ok(Registry[id])
            /\ (/\ ~EndsWithSlash(id)
                /\ "#" \notin Range(id)
                /\ last.uri = id \o <<"/">>
                /\ last.uri \notin DOMAIN Registry)
                   => last.res = Ok(Registry[id])

C1_Witness ==
    /\ Retrieved
    /\ last.res.ok
    /\ last.uri \notin DOMAIN Registry
    /\ \E id \in DOMAIN Registry :
           /\ last.uri = id \o <<"/">>
           /\ last.res.v = Registry[id]
           /\ Cardinality(DOMAIN Registry) >= 2

\* C2 as stated: the keys tried are the URI, the URI without its fragment,
\* and that base with a single trailing '/' removed.
C2_ThreeKeysSingleSlash ==
    Retrieved =>
        last.res = FirstRegistered(Registry,
                       <<last.uri, BeforeFragment(last.uri),
                         StripOneSlash(BeforeFragment(last.uri))>>, last.uri)

\* C2 amended: the third key is the base with every trailing '/' removed.
C2_ThreeKeys ==
    Retrieved =>
        last.res = FirstRegistered(Registry,
                       <<last.uri, BeforeFragment(last.uri),
                         WithoutTrailingSlashes(BeforeFragment(last.uri))>>, last.uri)

\* the third key answers, two '/' having been removed from the base
C2_Witness ==
    /\ Retrieved
    /\ last.res.ok
    /\ last.uri \notin DOMAIN Registry
    /\ BeforeFragment(last.uri) \notin DOMAIN Registry
    /\ BeforeFragment(last.uri) = WithoutTrailingSlashes(BeforeFragment(last.uri)) \o <<"/", "/">>

(***************************************************************************)
(* Registration properties                                                 *)
(***************************************************************************)
\* the identifier the contract names for a registration that succeeds
ExpectedId(schema, key) ==
    CASE key.some -> key.v
      [] ~key.some /\ schema.obj /\ schema.sid.p = "str" -> schema.sid.s
      [] ~key.some /\ schema.obj /\ schema.sid.p = "absent" /\ schema.lid.p = "str"
            -> schema.lid.s
      [] OTHER -> Unknown

\* the declared identifier field ($id, or id when there is no $id) exists
\* and is no string
DeclaredIdNotString(schema) ==
    /\ schema.obj
    /\ \/ schema.sid.p = "nonstr"
       \/ schema.sid.p = "absent" /\ schema.lid.p = "nonstr"

\* C6: a successful add_schema stores the document under the explicit key,
\* else $id, else id, else the placeholder; it replaces what was there and
\* leaves every other entry alone.
C6_StoresUnderOneId ==
    [][(last'.op = "add_schema" /\ last'.res.ok) =>
          LET id == ExpectedId(last'.schema, last'.key)
          IN /\ DOMAIN Registry' = (DOMAIN Registry) \cup {id}
             /\ Registry'[id] = last'.schema
             /\ \A x \in (DOMAIN Registry) \ {id} : Registry'[x] = Registry[x]]_vars

\* two anonymous documents have met on the placeholder
C6_Witness ==
    /\ last.op = "add_schema"
    /\ last.res.ok
    /\ ~last.key.some
    /\ last.replaced
    /\ Unknown \in DOMAIN Registry
    /\ Registry[Unknown] = last.schema
    /\ Cardinality(DOMAIN Registry) >= 2

\* C7: without an explicit key, a declared identifier that is no string
\* fails with InvalidSchemaId; a failed call leaves the registry as it was;
\* the retry with an explicit key registers the document.
C7_InvalidIdThenRetry ==
    [][last'.op = "add_schema" =>
          /\ (~last'.key.some /\ DeclaredIdNotString(last'.schema))
                => (~last'.res.ok /\ last'.res.err = "Schema ID must be a string")
          /\ ~last'.res.ok => (heap' = heap /\ ajv' = ajv)
          /\ last'.retry =>
                (/\ last'.res.ok
                 /\ last'.key.v \in DOMAIN Registry'
                 /\ Registry'[last'.key.v] = last'.schema)]_vars

C7_Witness ==
    /\ last.op = "add_schema"
    /\ last.retry
    /\ last.res.ok
    /\ DeclaredIdNotString(last.schema)
    /\ Registry[last.key.v] = last.schema

====
